---- MODULE Spec2Model ----
(***************************************************************************)
(* Query normalisation, filter construction and in-memory record search    *)
(* of the crime-record query service: engines/data_handler.py              *)
(* (DynamicDataHandler) and Crime_Query/engines/query_builder.py.          *)
(*                                                                         *)
(* Python values are modelled as tagged records, strings as sequences of   *)
(* Unicode code points (so that lower(), strip(), split(), the `in`        *)
(* substring test and strptime() are computed, not assumed), dicts as      *)
(* functions from key names to values.                                     *)
(***************************************************************************)
EXTENDS Integers, Sequences, FiniteSets, TLC

(***************************************************************************)
(* Bounds of the model.                                                    *)
(***************************************************************************)
\* how many fields of one query payload may carry a non-nominal value
MaxOdd == 1
\* how many calls one run of the query pipeline makes
MaxCalls == 3
\* how many records a record-array payload holds
MaxRecords == 2

(***************************************************************************)
(* Python strings: str.lower, str.strip, str.split, `a in b`, str(int).    *)
(***************************************************************************)
\* characters for which str.isspace() holds, among those the model uses
Whitespace == {9, 10, 11, 12, 13, 32}

\* str.lower(): only the cased characters of the model's alphabet (A-Z) change
Lower(s) == [i \in 1..Len(s) |-> IF s[i] \in 65..90 THEN s[i] + 32 ELSE s[i]]

SetMin(S) == CHOOSE x \in S : \A y \in S : x <= y
SetMax(S) == CHOOSE x \in S : \A y \in S : y <= x

\* str.strip() with no argument
Strip(s) ==
    LET keep == {i \in 1..Len(s) : s[i] \notin Whitespace}
    IN  IF keep = {} THEN <<>> ELSE SubSeq(s, SetMin(keep), SetMax(keep))

\* str.split() with no argument: the maximal runs of non-whitespace, in order
RECURSIVE SplitFrom(_, _)
SplitFrom(s, i) ==
    IF i > Len(s) THEN <<>>
    ELSE IF s[i] \in Whitespace THEN SplitFrom(s, i + 1)
    ELSE LET stops == {j \in i..Len(s) : j = Len(s) \/ s[j + 1] \in Whitespace}
             e == SetMin(stops)
         IN  <<SubSeq(s, i, e)>> \o SplitFrom(s, e + 1)

Split(s) == SplitFrom(s, 1)

\* `w in s` for two strings
Contains(s, w) ==
    \E i \in 0..(Len(s) - Len(w)) : SubSeq(s, i + 1, i + Len(w)) = w

\* str(n) for an int n >= 0: its decimal digits
RECURSIVE Digits(_)
Digits(n) == IF n < 10 THEN <<48 + n>> ELSE Digits(n \div 10) \o <<48 + (n % 10)>>

(***************************************************************************)
(* Python values.  t is the type, s the characters of a str, n the value   *)
(* of an int or bool, l the elements (strings) of a list.                  *)
(***************************************************************************)
NoneV == [t |-> "none", s |-> <<>>, n |-> 0, l |-> <<>>]
StrV(x) == [t |-> "str", s |-> x, n |-> 0, l |-> <<>>]
IntV(k) == [t |-> "int", s |-> <<>>, n |-> k, l |-> <<>>]
BoolV(b) == [t |-> "bool", s |-> <<>>, n |-> IF b THEN 1 ELSE 0, l |-> <<>>]
ListV(xs) == [t |-> "list", s |-> <<>>, n |-> 0, l |-> xs]

IsStr(v) == v.t = "str"

\* bool(v)
Truthy(v) ==
    CASE v.t = "none" -> FALSE
      [] v.t = "str"  -> v.s # <<>>
      [] v.t = "int"  -> v.n # 0
      [] v.t = "bool" -> v.n = 1
      [] v.t = "list" -> v.l # <<>>

EmptyDict == [k \in {} |-> NoneV]

\* dict.get(key): None for a missing key
Get(d, k) == IF k \in DOMAIN d THEN d[k] ELSE NoneV

\* what a call gives back: the exception it raised ("none": it returned) and its value
Returned(v) == [exc |-> "none", val |-> v]
Raised(e, v) == [exc |-> e, val |-> v]

(***************************************************************************)
(* translate_synonyms: the synonym table, in the iteration order of the    *)
(* dict literal (a repeated key keeps its first position), and the scan.   *)
(***************************************************************************)
S_assault == <<97, 115, 115, 97, 117, 108, 116>>
S_burglary == <<98, 117, 114, 103, 108, 97, 114, 121>>
S_fraud == <<102, 114, 97, 117, 100>>
S_murder == <<109, 117, 114, 100, 101, 114>>
S_robbery == <<114, 111, 98, 98, 101, 114, 121>>
S_theft == <<116, 104, 101, 102, 116>>
S_vandalism == <<118, 97, 110, 100, 97, 108, 105, 115, 109>>

crime_synonyms == <<
    [synonym |-> <<116, 104, 101, 102, 116>>, standard |-> S_theft],  \* theft
    [synonym |-> <<115, 116, 101, 97, 108, 105, 110, 103>>, standard |-> S_theft],  \* stealing
    [synonym |-> <<98, 117, 114, 103, 108, 97, 114, 121>>, standard |-> S_burglary],  \* burglary
    [synonym |-> <<114, 111, 98, 98, 101, 114, 121>>, standard |-> S_robbery],  \* robbery
    [synonym |-> <<97, 115, 115, 97, 117, 108, 116>>, standard |-> S_assault],  \* assault
    [synonym |-> <<109, 117, 114, 100, 101, 114>>, standard |-> S_murder],  \* murder
    [synonym |-> <<102, 114, 97, 117, 100>>, standard |-> S_fraud],  \* fraud
    [synonym |-> <<2330, 2379, 2352, 2368>>, standard |-> S_theft],  \* line 69
    [synonym |-> <<2330, 2379, 2352, 2368, 32, 2325, 2352, 2344, 2366>>, standard |-> S_theft],  \* line 70
    [synonym |-> <<2330, 2379, 2352>>, standard |-> S_theft],  \* line 71
    [synonym |-> <<2337, 2325, 2376, 2340, 2368>>, standard |-> S_robbery],  \* line 72
    [synonym |-> <<2337, 2325, 2376, 2340>>, standard |-> S_robbery],  \* line 73
    [synonym |-> <<2361, 2367, 2306, 2360, 2366>>, standard |-> S_assault],  \* line 74
    [synonym |-> <<2361, 2340, 2381, 2351, 2366>>, standard |-> S_murder],  \* line 75
    [synonym |-> <<2343, 2379, 2326, 2366>>, standard |-> S_fraud],  \* line 76
    [synonym |-> <<2336, 2327, 2368>>, standard |-> S_fraud],  \* line 77
    [synonym |-> <<2328, 2352, 32, 2350, 2375, 2306, 32, 2330, 2379, 2352, 2368>>, standard |-> S_burglary],  \* line 78
    [synonym |-> <<2458, 2497, 2480, 2495>>, standard |-> S_theft],  \* line 81
    [synonym |-> <<2458, 2507, 2480>>, standard |-> S_theft],  \* line 82
    [synonym |-> <<2465, 2494, 2453, 2494, 2468, 2495>>, standard |-> S_robbery],  \* line 83
    [synonym |-> <<2489, 2494, 2478, 2482, 2494>>, standard |-> S_assault],  \* line 84
    [synonym |-> <<2489, 2468, 2509, 2479, 2494>>, standard |-> S_murder],  \* line 85
    [synonym |-> <<2474, 2509, 2480, 2468, 2494, 2480, 2467, 2494>>, standard |-> S_fraud],  \* line 86
    [synonym |-> <<2477, 2494, 2457, 2458, 2497, 2480>>, standard |-> S_vandalism],  \* line 87
    [synonym |-> <<2456, 2480, 32, 2458, 2497, 2480, 2495>>, standard |-> S_burglary],  \* line 88
    [synonym |-> <<2980, 3007, 2992, 3009, 2975, 3021, 2975, 3009>>, standard |-> S_theft],  \* line 91
    [synonym |-> <<2990, 3019, 2970, 2975, 3007>>, standard |-> S_fraud],  \* line 92
    [synonym |-> <<2965, 3018, 2995, 3021, 2995, 3016>>, standard |-> S_robbery],  \* line 93
    [synonym |-> <<2980, 3006, 2965, 3021, 2965, 3009, 2980, 2994, 3021>>, standard |-> S_assault],  \* line 94
    [synonym |-> <<2965, 3018, 2994, 3016>>, standard |-> S_murder],  \* line 95
    [synonym |-> <<2990, 2985, 3016, 2997, 3007, 32, 2980, 3007, 2992, 3009, 2975, 3021, 2975, 3009>>, standard |-> S_burglary],  \* line 96
    [synonym |-> <<3110, 3146, 3074, 3095, 3108, 3112, 3074>>, standard |-> S_theft],  \* line 99
    [synonym |-> <<3082, 3120, 3135, 3114, 3147, 3093>>, standard |-> S_robbery],  \* line 100
    [synonym |-> <<3118, 3147, 3128, 3074>>, standard |-> S_fraud],  \* line 101
    [synonym |-> <<3110, 3134, 3105, 3135>>, standard |-> S_assault],  \* line 102
    [synonym |-> <<3129, 3108, 3149, 3119>>, standard |-> S_murder],  \* line 103
    [synonym |-> <<3098, 3147, 3120, 3136>>, standard |-> S_burglary],  \* line 104
    [synonym |-> <<2331, 2366, 2346, 2366, 32, 2350, 2366, 2352, 2339, 2375>>, standard |-> S_robbery],  \* line 109
    [synonym |-> <<2361, 2354, 2381, 2354, 2366>>, standard |-> S_assault],  \* line 110
    [synonym |-> <<2326, 2370, 2344>>, standard |-> S_murder],  \* line 111
    [synonym |-> <<2347, 2360, 2357, 2339, 2370, 2325>>, standard |-> S_fraud],  \* line 112
    [synonym |-> <<2328, 2352, 2347, 2379, 2337, 2368>>, standard |-> S_burglary],  \* line 113
    [synonym |-> <<3246, 3275, 3256>>, standard |-> S_fraud],  \* line 116
    [synonym |-> <<3221, 3251, 3277, 3251, 3236, 3240>>, standard |-> S_theft],  \* line 117
    [synonym |-> <<3238, 3262, 3251, 3270>>, standard |-> S_robbery],  \* line 118
    [synonym |-> <<3257, 3250, 3277, 3250, 3270>>, standard |-> S_assault],  \* line 119
    [synonym |-> <<3221, 3274, 3250, 3270>>, standard |-> S_murder],  \* line 120
    [synonym |-> <<3236, 3275, 3231, 3238, 32, 3221, 3251, 3277, 3251, 3236, 3240>>, standard |-> S_burglary],  \* line 121
    [synonym |-> <<2586, 2635, 2608, 2624>>, standard |-> S_theft],  \* line 124
    [synonym |-> <<2593, 2622, 2581, 2631, 2604, 2622, 2588, 2620, 2624>>, standard |-> S_robbery],  \* line 125
    [synonym |-> <<2617, 2606, 2610, 2622>>, standard |-> S_assault],  \* line 126
    [synonym |-> <<2581, 2596, 2610>>, standard |-> S_murder],  \* line 127
    [synonym |-> <<2592, 2673, 2583, 2624>>, standard |-> S_fraud],  \* line 128
    [synonym |-> <<2584, 2608, 32, 2598, 2624, 32, 2586, 2635, 2608, 2624>>, standard |-> S_burglary]   \* line 129
    >>

\* the entries of the table whose surface form occurs in the string c
Matching(c) == {i \in 1..Len(crime_synonyms) : Contains(c, crime_synonyms[i].synonym)}

\* mutant: the scan does not stop at the first match, the last match is kept
translate_synonyms_last(query_dict) ==
    LET v == Get(query_dict, "crime_category")
    IN  IF ~Truthy(v) THEN Returned(query_dict)
        ELSE IF ~IsStr(v) THEN Raised("AttributeError", query_dict)
        ELSE LET hits == Matching(Lower(v.s))
             IN  IF hits = {} THEN Returned(query_dict)
                 ELSE Returned([query_dict EXCEPT !["crime_category"] =
                                    StrV(crime_synonyms[SetMax(hits)].standard)])

\* mutant: the lower-cased value is written back when nothing matches
translate_synonyms_lowered(query_dict) ==
    LET v == Get(query_dict, "crime_category")
    IN  IF ~Truthy(v) THEN Returned(query_dict)
        ELSE IF ~IsStr(v) THEN Raised("AttributeError", query_dict)
        ELSE LET hits == Matching(Lower(v.s))
             IN  IF hits = {}
                 THEN Returned([query_dict EXCEPT !["crime_category"] = StrV(Lower(v.s))])
                 ELSE Returned([query_dict EXCEPT !["crime_category"] =
                                    StrV(crime_synonyms[SetMin(hits)].standard)])

\* the for loop of translate_synonyms from entry i on: the standard term of the
\* first entry whose synonym occurs in crime_category, <<>> when the loop ends
RECURSIVE ScanSynonyms(_, _)
ScanSynonyms(crime_category, i) ==
    IF i > Len(crime_synonyms) THEN <<>>
    ELSE IF Contains(crime_category, crime_synonyms[i].synonym)
         THEN <<crime_synonyms[i].standard>>
         ELSE ScanSynonyms(crime_category, i + 1)

\* translate_synonyms(query_dict): query_dict is changed in place and returned;
\* .lower() of a value that is no str raises AttributeError
translate_synonyms(query_dict) ==
    LET v == Get(query_dict, "crime_category")
    IN  IF ~Truthy(v) THEN Returned(query_dict)
        ELSE IF ~IsStr(v) THEN Raised("AttributeError", query_dict)
        ELSE LET hit == ScanSynonyms(Lower(v.s), 1)
             IN  IF hit = <<>> THEN Returned(query_dict)
                 ELSE Returned([query_dict EXCEPT !["crime_category"] = StrV(hit[1])])

(***************************************************************************)
(* DynamicDataHandler.normalize_query_object                               *)
(***************************************************************************)
\* mutant: every falsy value is dropped (`if value:`), strings are not trimmed
normalize_query_object_falsy(query_obj) ==
    [key \in {k \in DOMAIN query_obj : Truthy(query_obj[k])} |-> query_obj[key]]

\* `value is not None and value != "" and value != []`, then strip() of a str
normalize_query_object(query_obj) ==
    [key \in {k \in DOMAIN query_obj :
                /\ query_obj[k] # NoneV
                /\ query_obj[k] # StrV(<<>>)
                /\ query_obj[k] # ListV(<<>>)} |->
        IF IsStr(query_obj[key]) THEN StrV(Strip(query_obj[key].s))
        ELSE query_obj[key]]

(***************************************************************************)
(* datetime.strptime(s, "%Y-%m-%d"): the format's regular expression       *)
(*   (\d\d\d\d)-(1[0-2]|0[1-9]|[1-9])-(3[01]|[12]\d|0[1-9]|[1-9]| [1-9])   *)
(* matched at the start of s, nothing left over, then a date of the        *)
(* calendar (year >= 1).  Every failure is a ValueError.                   *)
(***************************************************************************)
At(s, i) == IF i >= 1 /\ i <= Len(s) THEN s[i] ELSE 0
IsDigit(c) == c \in 48..57
Num(c) == c - 48

IsLeap(y) == (y % 4 = 0 /\ y % 100 # 0) \/ y % 400 = 0

DaysInMonth(y, m) ==
    IF m = 2 THEN (IF IsLeap(y) THEN 29 ELSE 28)
    ELSE IF m \in {4, 6, 9, 11} THEN 30 ELSE 31

NoDate == [ok |-> FALSE, y |-> 0, m |-> 0, d |-> 0]

\* the day group, starting at position p: [len, d], len = 0 when no alternative matches
DayGroup(s, p) ==
    LET a == At(s, p)
        b == At(s, p + 1)
    IN  IF a = 51 /\ b \in {48, 49} THEN [len |-> 2, d |-> 30 + Num(b)]
        ELSE IF a \in {49, 50} /\ IsDigit(b) THEN [len |-> 2, d |-> 10 * Num(a) + Num(b)]
        ELSE IF a = 48 /\ b \in 49..57 THEN [len |-> 2, d |-> Num(b)]
        ELSE IF a \in 49..57 THEN [len |-> 1, d |-> Num(a)]
        ELSE IF a = 32 /\ b \in 49..57 THEN [len |-> 2, d |-> Num(b)]
        ELSE [len |-> 0, d |-> 0]

\* the month group, starting at position p
MonthGroup(s, p) ==
    LET a == At(s, p)
        b == At(s, p + 1)
    IN  IF a = 49 /\ b \in {48, 49, 50} THEN [len |-> 2, m |-> 10 + Num(b)]
        ELSE IF a = 48 /\ b \in 49..57 THEN [len |-> 2, m |-> Num(b)]
        ELSE IF a \in 49..57 THEN [len |-> 1, m |-> Num(a)]
        ELSE [len |-> 0, m |-> 0]

\* the datetime constructor: a date of the calendar, year >= 1
MakeDate(y, m, d) ==
    IF y < 1 \/ d > DaysInMonth(y, m) THEN NoDate
    ELSE [ok |-> TRUE, y |-> y, m |-> m, d |-> d]

Year(s) == 1000 * Num(s[1]) + 100 * Num(s[2]) + 10 * Num(s[3]) + Num(s[4])

\* after the day group dg: nothing may be left over ("unconverted data remains")
AfterDay(s, mg, dg) ==
    IF dg.len = 0 \/ 6 + mg.len + dg.len # Len(s) THEN NoDate
    ELSE MakeDate(Year(s), mg.m, dg.d)

\* after the month group mg: the second "-", then the day group
AfterMonth(s, mg) ==
    IF mg.len = 0 \/ At(s, 6 + mg.len) # 45 THEN NoDate
    ELSE AfterDay(s, mg, DayGroup(s, 7 + mg.len))

strptime(s) ==
    IF ~(\A i \in 1..4 : IsDigit(At(s, i))) \/ At(s, 5) # 45 THEN NoDate
    ELSE AfterMonth(s, MonthGroup(s, 6))

(***************************************************************************)
(* Filters: MongoDB-style dicts.                                           *)
(***************************************************************************)
\* {"$regex": pattern, "$options": "i"}
Rx(pattern) == ("$regex" :> pattern) @@ ("$options" :> StrV(<<105>>))

\* {field: {"$regex": pattern, "$options": "i"}}
Cond(field, pattern) == field :> Rx(pattern)

\* d[k] = v
Put(d, k, v) == (k :> v) @@ d

\* mutant: a failed parse is not caught
parsed_bound_uncaught(dt) ==
    IF dt.ok THEN Returned(<<[y |-> dt.y, m |-> dt.m, d |-> dt.d]>>)
    ELSE Raised("ValueError", <<>>)

\* `try: ... = datetime.strptime(...) except ValueError: log`: <<the date>>, or
\* <<>> when the parse failed
parsed_bound(dt) ==
    IF dt.ok THEN Returned(<<[y |-> dt.y, m |-> dt.m, d |-> dt.d]>>)
    ELSE Returned(<<>>)

\* one bound of the date range, from the value v of date_start or date_end:
\* `if query.get(key):` then strptime, which raises TypeError when v is no str
date_bound(v) ==
    IF ~Truthy(v) THEN Returned(<<>>)
    ELSE IF ~IsStr(v) THEN Raised("TypeError", <<>>)
    ELSE parsed_bound(strptime(v.s))

\* mutant: the upper bound is assigned as a new date_filter, the lower one lost
date_filter_upper_wins(lo, hi) ==
    IF hi # <<>> THEN "$lte" :> hi[1]
    ELSE IF lo # <<>> THEN "$gte" :> lo[1]
    ELSE EmptyDict

\* date_filter, from the two bounds (<<>>: none)
date_filter(lo, hi) ==
    (IF lo = <<>> THEN EmptyDict ELSE "$gte" :> lo[1])
        @@ (IF hi = <<>> THEN EmptyDict ELSE "$lte" :> hi[1])

\* `if date_filter: filters["date"] = date_filter`
put_date(filters, df) ==
    IF DOMAIN df = {} THEN Returned(filters) ELSE Returned(Put(filters, "date", df))

add_date_end(filters, lo, hi) ==
    IF hi.exc # "none" THEN Raised(hi.exc, EmptyDict)
    ELSE put_date(filters, date_filter(lo, hi.val))

add_date_start(query, filters, lo) ==
    IF lo.exc # "none" THEN Raised(lo.exc, EmptyDict)
    ELSE add_date_end(filters, lo.val, date_bound(Get(query, "date_end")))

\* the "Handle date range" block, the same in both builders; r is what the
\* blocks before it gave
add_date_filter(query, r) ==
    IF r.exc # "none" THEN r
    ELSE add_date_start(query, r.val, date_bound(Get(query, "date_start")))

\* `if query.get(key): filters[key] = {"$regex": query[key], "$options": "i"}`
add_plain_match(query, filters, key) ==
    IF Truthy(Get(query, key)) THEN Put(filters, key, Rx(query[key])) ELSE filters

\* the "Handle status" and "Handle reported_by" blocks, the same in both builders
add_status_reported_by(query, r) ==
    IF r.exc # "none" THEN r
    ELSE Returned(add_plain_match(query, add_plain_match(query, r.val, "status"),
                                  "reported_by"))

(***************************************************************************)
(* DynamicDataHandler.build_search_filters                                 *)
(***************************************************************************)
\* the record fields the crime_type block matches against
CategoryFields == <<"crime_type", "crime_category", "crime_subcategory">>
\* the record fields the location block matches against
LocationFields == <<"location", "city", "address", "state", "country">>

Conds(fields, pattern) == [i \in 1..Len(fields) |-> Cond(fields[i], pattern)]

\* filters.get("$or", [])
GetOr(filters) == IF "$or" \in DOMAIN filters THEN filters["$or"] ELSE <<>>

\* mutant: the $or list is stored even when there is no crime type
add_crime_type_always(query_obj, filters) ==
    LET v == Get(query_obj, "crime_type")
    IN  IF ~Truthy(v) THEN Returned(Put(filters, "$or", GetOr(filters)))
        ELSE IF ~IsStr(v) THEN Raised("AttributeError", EmptyDict)
        ELSE Returned(Put(filters, "$or",
                          GetOr(filters) \o Conds(CategoryFields, StrV(Lower(v.s)))))

\* the "Handle crime type" block
add_crime_type(query_obj, filters) ==
    LET v == Get(query_obj, "crime_type")
    IN  IF ~Truthy(v) THEN Returned(filters)
        ELSE IF ~IsStr(v) THEN Raised("AttributeError", EmptyDict)
        ELSE Returned(Put(filters, "$or",
                          GetOr(filters) \o Conds(CategoryFields, StrV(Lower(v.s)))))

\* mutant: the location conditions are appended to the $or that is already there
merge_location_flat(filters, location_filters) ==
    Put(filters, "$or", GetOr(filters) \o location_filters)

\* `if "$or" in filters: filters = {"$and": [...]} else: filters["$or"] = ...`
merge_location(filters, location_filters) ==
    IF "$or" \in DOMAIN filters
    THEN "$and" :> << "$or" :> filters["$or"], "$or" :> location_filters >>
    ELSE Put(filters, "$or", location_filters)

\* the "Handle location" block; r is what the crime type block gave
add_location(query_obj, r) ==
    LET v == Get(query_obj, "location")
    IN  IF r.exc # "none" \/ ~Truthy(v) THEN r
        ELSE IF ~IsStr(v) THEN Raised("AttributeError", EmptyDict)
        ELSE Returned(merge_location(r.val, Conds(LocationFields, StrV(Lower(v.s)))))

\* mutant: the location block comes last, so that its $and replaces what the
\* date, status and reported_by blocks stored
build_search_filters_location_last(query_obj) ==
    add_location(query_obj,
        add_status_reported_by(query_obj,
            add_date_filter(query_obj,
                add_crime_type(query_obj, EmptyDict))))

build_search_filters(query_obj) ==
    add_status_reported_by(query_obj,
        add_date_filter(query_obj,
            add_location(query_obj,
                add_crime_type(query_obj, EmptyDict))))

(***************************************************************************)
(* query_builder.build_mongo_query                                         *)
(***************************************************************************)
\* the record fields build_mongo_query's location block matches against
MongoLocationFields == <<"city", "location", "address">>

\* the "Handle crime type" block of build_mongo_query
add_crime_category(parsed_query, mongo_query) ==
    LET v == Get(parsed_query, "crime_category")
    IN  IF ~Truthy(v) THEN Returned(mongo_query)
        ELSE IF ~IsStr(v) THEN Raised("AttributeError", EmptyDict)
        ELSE Returned(Put(mongo_query, "crime_category", Rx(StrV(Lower(v.s)))))

\* the "Handle location" block of build_mongo_query; r is what the block before gave
add_mongo_location(parsed_query, r) ==
    LET v == Get(parsed_query, "location")
    IN  IF r.exc # "none" \/ ~Truthy(v) THEN r
        ELSE IF ~IsStr(v) THEN Raised("AttributeError", EmptyDict)
        ELSE Returned(Put(r.val, "$or", Conds(MongoLocationFields, StrV(Lower(v.s)))))

build_mongo_query(parsed_query) ==
    add_status_reported_by(parsed_query,
        add_date_filter(parsed_query,
            add_mongo_location(parsed_query,
                add_crime_category(parsed_query, EmptyDict))))

(***************************************************************************)
(* Records: str(value), search_record_array, partial_match_text_fields     *)
(***************************************************************************)
\* repr(s) of a str without quotes or escapes
Repr(s) == <<39>> \o s \o <<39>>

RECURSIVE JoinRepr(_)
JoinRepr(xs) ==
    IF xs = <<>> THEN <<>>
    ELSE IF Len(xs) = 1 THEN Repr(xs[1])
    ELSE Repr(xs[1]) \o <<44, 32>> \o JoinRepr(Tail(xs))

\* str(value)
PyStr(v) ==
    CASE v.t = "str"  -> v.s
      [] v.t = "int"  -> Digits(v.n)
      [] v.t = "bool" -> IF v.n = 1 THEN <<84, 114, 117, 101>> ELSE <<70, 97, 108, 115, 101>>
      [] v.t = "list" -> <<91>> \o JoinRepr(v.l) \o <<93>>
      [] v.t = "none" -> <<78, 111, 110, 101>>

\* mutant: every search word must be found in the record
record_matches_all(record, search_words) ==
    \A i \in 1..Len(search_words) :
        \E field \in DOMAIN record :
            /\ record[field] # NoneV
            /\ Contains(Lower(PyStr(record[field])), search_words[i])

\* the body of search_record_array's loop over the records: match_found
record_matches(record, search_words) ==
    \E field \in DOMAIN record :
        /\ record[field] # NoneV
        /\ \E i \in 1..Len(search_words) :
               Contains(Lower(PyStr(record[field])), search_words[i])

\* mutant: a matching record is put in front of the matches found so far
RECURSIVE search_loop_reversed(_, _, _)
search_loop_reversed(records, search_words, i) ==
    IF i > Len(records) THEN <<>>
    ELSE search_loop_reversed(records, search_words, i + 1)
         \o (IF record_matches(records[i], search_words) THEN <<records[i]>> ELSE <<>>)

\* the loop over the records from record i on: the matching records, in order
RECURSIVE search_loop(_, _, _)
search_loop(records, search_words, i) ==
    IF i > Len(records) THEN <<>>
    ELSE (IF record_matches(records[i], search_words) THEN <<records[i]>> ELSE <<>>)
         \o search_loop(records, search_words, i + 1)

\* mutant: the text is stripped before it is tested (`if not search_terms.strip()`)
search_record_array_stripped(records, search_terms) ==
    IF ~Truthy(search_terms) \/ Strip(search_terms.s) = <<>> THEN records
    ELSE search_loop(records, Split(Lower(search_terms.s)), 1)

\* search_record_array(records, search_terms); search_terms is None or a str
search_record_array(records, search_terms) ==
    IF ~Truthy(search_terms) THEN records
    ELSE search_loop(records, Split(Lower(search_terms.s)), 1)

\* mutant: the field value is converted with str() instead of being required to be a str
partial_match_str(record, field_name, search_value_lower) ==
    LET field_value == Get(record, field_name)
    IN  /\ Truthy(field_value)
        /\ Contains(Lower(PyStr(field_value)), search_value_lower)

\* the test of partial_match_text_fields's loop on one record
partial_match(record, field_name, search_value_lower) ==
    LET field_value == Get(record, field_name)
    IN  /\ Truthy(field_value)
        /\ IsStr(field_value)
        /\ Contains(Lower(field_value.s), search_value_lower)

RECURSIVE partial_loop(_, _, _, _)
partial_loop(records, field_name, search_value_lower, i) ==
    IF i > Len(records) THEN <<>>
    ELSE (IF partial_match(records[i], field_name, search_value_lower)
          THEN <<records[i]>> ELSE <<>>)
         \o partial_loop(records, field_name, search_value_lower, i + 1)

\* partial_match_text_fields(records, field_name, search_value)
partial_match_text_fields(records, field_name, search_value) ==
    IF ~Truthy(search_value) THEN records
    ELSE partial_loop(records, field_name, Lower(search_value.s), 1)

(***************************************************************************)
(* DynamicDataHandler.handle_null_empty_fields                             *)
(***************************************************************************)
\* "N/A"
NA == StrV(<<78, 47, 65>>)

\* mutant: only None is replaced
clean_value_none_only(value) ==
    IF value = NoneV THEN NA ELSE value

\* mutant: every falsy value is replaced, False and 0 too (`if not value`)
clean_value_falsy(value) ==
    IF ~Truthy(value) THEN NA ELSE value

\* the if/elif chain on one value
clean_value(value) ==
    IF value = NoneV THEN NA
    ELSE IF IsStr(value) /\ Strip(value.s) = <<>> THEN NA
    ELSE IF value.t = "list" /\ Len(value.l) = 0 THEN NA
    ELSE value

\* cleaned_record, once the loop over record.items() is done
clean_record(record) == [field \in DOMAIN record |-> clean_value(record[field])]

\* handle_null_empty_fields(records)
handle_null_empty_fields(records) ==
    [i \in 1..Len(records) |-> clean_record(records[i])]

(***************************************************************************)
(* DynamicDataHandler.detect_data_format and process_dynamic_data.  A      *)
(* payload is given by its Python type, and by the dict or the list it is. *)
(***************************************************************************)
query_fields ==
    <<"crime_type", "location", "date_start", "date_end", "status", "reported_by">>

\* detect_data_format(data), type(data) being type
detect_data_format(type, data) ==
    IF type = "dict"
    THEN IF \E i \in 1..Len(query_fields) : query_fields[i] \in DOMAIN data
         THEN Returned("query_object")
         ELSE Returned("record_array")
    ELSE IF type = "list" THEN Returned("record_array")
    ELSE Raised("ValueError", "")

\* return [{"query_filters": filters, "format": "query_object"}]; r is what
\* build_search_filters gave
query_descriptor(r) ==
    IF r.exc # "none" THEN Raised(r.exc, <<>>)
    ELSE Returned(<<[query_filters |-> r.val, format |-> "query_object"]>>)

\* mutant: the filter is built from the payload as given
process_query_object_unnormalized(data) ==
    query_descriptor(build_search_filters(data))

\* the query_object branch
process_query_object(data) ==
    query_descriptor(build_search_filters(normalize_query_object(data)))

\* `if search_query: search_record_array(cleaned_records, search_query)`
apply_search(cleaned_records, search_query) ==
    IF Truthy(search_query)
    THEN search_record_array(cleaned_records, search_query)
    ELSE cleaned_records

\* mutant: the records are searched as given, and the matches cleaned afterwards
process_record_array_search_first(records, search_query) ==
    handle_null_empty_fields(apply_search(records, search_query))

\* the record_array branch, records being data or [data]
process_record_array(records, search_query) ==
    apply_search(handle_null_empty_fields(records), search_query)

\* the body of the try block; data_format is what detect_data_format gave
process_body(data_format, type, data, records, search_query) ==
    IF data_format.exc # "none" THEN Raised(data_format.exc, <<>>)
    ELSE IF data_format.val = "query_object" THEN process_query_object(data)
    ELSE Returned(process_record_array(IF type = "list" THEN records ELSE <<data>>,
                                       search_query))

\* `except Exception as e: log_error(...); return []`
except_returns_empty(r) ==
    IF r.exc # "none" THEN Returned(<<>>) ELSE r

\* process_dynamic_data(data, search_query)
process_dynamic_data(type, data, records, search_query) ==
    except_returns_empty(
        process_body(detect_data_format(type, data), type, data, records, search_query))

(***************************************************************************)
(* ingest_to_mongo.query_with_dynamic_handler.  The collection is given    *)
(* by the records it holds: find({}) returns them all.  A mapping payload  *)
(* is run on the empty collection, so a find with a filter finds nothing.  *)
(***************************************************************************)
\* what query_with_dynamic_handler gives: its result, and the filters it
\* passed to query_crime_data
Executed(issued, val) == [exc |-> "none", val |-> val, issued |-> issued]

\* query_crime_data(mongo_query): collection.find(mongo_query) on the store
query_crime_data(store, mongo_query) ==
    IF mongo_query = EmptyDict THEN store ELSE <<>>

\* the query_object branch; r is what build_mongo_query gave
execute_query(store, r) ==
    IF r.exc # "none" THEN Executed(<<>>, <<>>)
    ELSE Executed(<<r.val>>, query_crime_data(store, r.val))

\* mutant: the matching records are returned as they are found
search_then_clean_uncleaned(all_records, search_terms) ==
    IF Truthy(search_terms) THEN search_record_array(all_records, search_terms)
    ELSE all_records

\* the record_array branch after all_records = query_crime_data({})
search_then_clean(all_records, search_terms) ==
    handle_null_empty_fields(
        IF Truthy(search_terms) THEN search_record_array(all_records, search_terms)
        ELSE all_records)

\* the body of the try block; data_format is what detect_data_format gave
dynamic_query(data_format, query_data, store, search_terms) ==
    IF data_format.exc # "none" THEN Executed(<<>>, <<>>)
    ELSE IF data_format.val = "query_object"
    THEN execute_query(store, build_mongo_query(normalize_query_object(query_data)))
    ELSE Executed(<<EmptyDict>>,
                  search_then_clean(query_crime_data(store, EmptyDict), search_terms))

\* query_with_dynamic_handler(query_data, search_terms), type(query_data) being type
query_with_dynamic_handler(type, query_data, store, search_terms) ==
    dynamic_query(detect_data_format(type, query_data), query_data, store, search_terms)

(***************************************************************************)
(* Inputs.                                                                 *)
(***************************************************************************)
T_Theft == <<84, 104, 101, 102, 116>>  \* 'Theft'
T_Robbery == <<82, 111, 98, 98, 101, 114, 121>>  \* 'Robbery'
T_Mumbai == <<77, 117, 109, 98, 97, 105>>  \* 'Mumbai'
T_Open == <<79, 112, 101, 110>>  \* 'Open'
T_Police == <<80, 111, 108, 105, 99, 101>>  \* 'Police'
T_d_2023_01_15 == <<50, 48, 50, 51, 45, 48, 49, 45, 49, 53>>  \* '2023-01-15'
T_d_2023_12_31 == <<50, 48, 50, 51, 45, 49, 50, 45, 51, 49>>  \* '2023-12-31'
T_blank == <<32, 32>>  \* '  '
T_padded == <<32, 80, 117, 110, 101, 32>>  \* ' Pune '
T_XYZ == <<88, 89, 90>>  \* 'XYZ'
T_robbery_theft == <<114, 111, 98, 98, 101, 114, 121, 32, 116, 104, 101, 102, 116>>  \* 'robbery theft'
T_ghar_mein_chori == <<2328, 2352, 32, 2350, 2375, 2306, 32, 2330, 2379, 2352, 2368>>  \* the key of query_builder.py line 78
T_not_a_date == <<110, 111, 116, 45, 97, 45, 100, 97, 116, 101>>  \* 'not-a-date'
T_d_2023_02_30 == <<50, 48, 50, 51, 45, 48, 50, 45, 51, 48>>  \* '2023-02-30'
T_d_2023_1_5 == <<50, 48, 50, 51, 45, 49, 45, 53>>  \* '2023-1-5'
T_a == <<97>>  \* 'a'
T_Thane_Mumbai == <<84, 104, 97, 110, 101, 44, 32, 77, 117, 109, 98, 97, 105>>  \* 'Thane, Mumbai'
T_Burglary == <<66, 117, 114, 103, 108, 97, 114, 121>>  \* 'Burglary'
T_Pune == <<80, 117, 110, 101>>  \* 'Pune'
T_mumbai == <<109, 117, 109, 98, 97, 105>>  \* 'mumbai'
T_THEFT_pune == <<84, 72, 69, 70, 84, 32, 112, 117, 110, 101>>  \* 'THEFT pune'
T_xyz == <<120, 121, 122>>  \* 'xyz'
T_1 == <<49>>  \* '1'
T_true == <<116, 114, 117, 101>>  \* 'true'
T_none == <<110, 111, 110, 101>>  \* 'none'
T_tab_space == <<9, 32>>  \* '\t '
T_mum == <<109, 117, 109>>  \* 'mum'
T_THEFT == <<84, 72, 69, 70, 84>>  \* 'THEFT'
T_n_a == <<110, 47, 97>>  \* 'n/a'
T_brackets == <<91, 93>>  \* '[]'

\* the query fields the two builders read
QueryFields ==
    {"crime_type", "crime_category", "location", "date_start", "date_end",
     "status", "reported_by"}

\* a well-formed value of each query field
Nominal(f) ==
    CASE f = "crime_type"     -> StrV(T_Theft)
      [] f = "crime_category" -> StrV(T_Robbery)
      [] f = "location"       -> StrV(T_Mumbai)
      [] f = "date_start"     -> StrV(T_d_2023_01_15)
      [] f = "date_end"       -> StrV(T_d_2023_12_31)
      [] f = "status"         -> StrV(T_Open)
      [] f = "reported_by"    -> StrV(T_Police)

\* the other values a caller may put in each field: absent markers, blank and
\* padded strings, values that are no strings, unmapped and ambiguous
\* categories, dates that do not parse
Odd(f) ==
    CASE f = "crime_type"     -> {NoneV, IntV(5), StrV(T_blank)}
      [] f = "crime_category" -> {IntV(5), StrV(T_XYZ), StrV(T_robbery_theft),
                                  StrV(T_ghar_mein_chori)}
      [] f = "location"       -> {StrV(<<>>), StrV(T_padded), StrV(T_blank), IntV(5)}
      [] f = "date_start"     -> {NoneV, StrV(T_not_a_date), StrV(T_d_2023_02_30), IntV(5)}
      [] f = "date_end"       -> {StrV(T_d_2023_1_5), StrV(T_not_a_date), IntV(5)}
      [] f = "status"         -> {ListV(<<>>), IntV(0), IntV(5)}
      [] f = "reported_by"    -> {ListV(<<T_a>>), StrV(T_blank), BoolV(FALSE)}

OddValues == UNION {Odd(f) : f \in QueryFields}

\* the query payloads: any set of fields, at most MaxOdd of them with an odd value
QueryPayloads ==
    UNION { UNION { { [f \in D |-> IF f \in O THEN o[f] ELSE Nominal(f)] :
                        o \in {x \in [O -> OddValues] : \A f \in O : x[f] \in Odd(f)} } :
                    O \in {X \in SUBSET D : Cardinality(X) <= MaxOdd} } :
            D \in SUBSET QueryFields }

\* the records a record array is made of
RecordPool ==
    { [id |-> IntV(1), location |-> StrV(T_Thane_Mumbai),
       crime_category |-> StrV(T_Burglary), status |-> NoneV],
      [id |-> IntV(2), location |-> StrV(T_Pune),
       crime_category |-> StrV(T_Theft), tags |-> ListV(<<>>)],
      [location |-> NoneV, notes |-> StrV(<<>>), solved |-> BoolV(TRUE)],
      [location |-> IntV(12), tags |-> ListV(<<T_Theft>>)],
      [crime_category |-> StrV(T_Theft), notes |-> StrV(T_blank)],
      [count |-> IntV(0), solved |-> BoolV(FALSE)] }

RecordPayloads == UNION {[1..n -> RecordPool] : n \in 0..MaxRecords}

\* the search_terms given to search_record_array
SearchTerms ==
    {NoneV, StrV(<<>>), StrV(T_tab_space), StrV(T_mumbai), StrV(T_THEFT_pune),
     StrV(T_xyz), StrV(T_1), StrV(T_true), StrV(T_none), StrV(T_n_a),
     StrV(T_brackets)}

\* the payloads that are a single mapping: queries, and single records
\* the queries whose crime_category is a surface form of the synonym table
SurfacePayloads ==
    {[f \in {"crime_category"} |-> StrV(crime_synonyms[i].synonym)] :
        i \in 1..Len(crime_synonyms)}

DictPayloads == QueryPayloads \cup RecordPool \cup SurfacePayloads

\* the types of the payloads that are neither a dict nor a list
OtherTypes == {"int", "str", "NoneType"}

\* the field_name and search_value given to partial_match_text_fields
MatchFields == {"location", "crime_category", "tags"}
MatchValues == {NoneV, StrV(<<>>), StrV(T_mum), StrV(T_THEFT), StrV(T_1)}

(***************************************************************************)
(* State.                                                                  *)
(*   kind     the Python type of the payload: "dict", "list" or another    *)
(*   data0    the payload as the caller built it                           *)
(*   data     the caller's payload object now                              *)
(*   aliased  whether query is still the caller's payload object          *)
(*   query    the query dict the pipeline holds                            *)
(*   arg      the argument of the last call, as it was before the call     *)
(*   calls    the calls made so far                                        *)
(*   filters  what the last builder returned                               *)
(*   raised   the exception that ended the run, "none" if none             *)
(*   records  the record array                                             *)
(*   sargs    the search arguments of the last call on the record array    *)
(*   found    the records the last call on the record array returned       *)
(*   format   what detect_data_format returned, "" before it did            *)
(*   result   what process_dynamic_data or query_with_dynamic_handler      *)
(*            returned                                                     *)
(*   shares   which of the caller's objects the last result holds: "list"  *)
(*            (it is the caller's list), "records" (a new list of the      *)
(*            caller's records) or "nothing" (new objects only)            *)
(*   issued   the filters passed to query_crime_data                       *)
(*   page_number, results_per_page, view, submitted_query, last_event:     *)
(*            the results view of main(), described with its actions       *)
(***************************************************************************)
VARIABLES kind, data0, data, aliased, query, arg, calls, filters, raised,
          records, sargs, found, format, result, shares, issued,
          page_number, results_per_page, view, submitted_query, last_event

\* the handler's state, and the session state and display of the results view
hvars == <<kind, data0, data, aliased, query, arg, calls, filters, raised,
           records, sargs, found, format, result, shares, issued>>
uivars == <<page_number, results_per_page, view, submitted_query, last_event>>

vars == <<hvars, uivars>>

qvars == <<data, aliased, query, arg, filters, raised>>
rvars == <<sargs, found>>
pvars == <<format, result>>

NoArgs == [field_name |-> "", text |-> NoneV]

HandlerInit ==
    /\ calls = <<>>
    /\ shares = "nothing"
    /\ issued = <<>>
    /\ arg = EmptyDict
    /\ filters = EmptyDict
    /\ raised = "none"
    /\ sargs = NoArgs
    /\ found = <<>>
    /\ aliased = TRUE
    /\ format = ""
    /\ result = <<>>
    /\ \/ /\ kind = "dict"
          /\ data0 \in DictPayloads
          /\ data = data0
          /\ query = data0
          /\ records = <<>>
       \/ /\ kind = "list"
          /\ records \in RecordPayloads
          /\ data0 = EmptyDict
          /\ data = EmptyDict
          /\ query = EmptyDict
       \/ /\ kind \in OtherTypes
          /\ records = <<>>
          /\ data0 = EmptyDict
          /\ data = EmptyDict
          /\ query = EmptyDict

Builders == {"build_search_filters", "build_mongo_query"}

\* the pipeline may go on: nothing was raised, no filter was built yet
\* (detect_data_format changes nothing: the calls after it are those after no call)
Running ==
    /\ kind = "dict"
    /\ raised = "none"
    /\ format = ""
    /\ Len(calls) < MaxCalls
    /\ \A i \in 1..Len(calls) : calls[i] \notin Builders

\* parsed_query = translate_synonyms(parsed_query)
TranslateSynonyms ==
    /\ Running
    /\ \E r \in {translate_synonyms(query)} :
           /\ raised' = r.exc
           /\ query' = r.val
           /\ data' = IF aliased THEN r.val ELSE data
    /\ arg' = query
    /\ calls' = Append(calls, "translate_synonyms")
    /\ UNCHANGED <<kind, data0, aliased, filters, records, rvars, pvars, shares, issued, uivars>>

\* normalized_query = handler.normalize_query_object(query)
NormalizeQueryObject ==
    /\ Running
    /\ query' = normalize_query_object(query)
    /\ aliased' = FALSE
    /\ arg' = query
    /\ calls' = Append(calls, "normalize_query_object")
    /\ UNCHANGED <<kind, data0, data, filters, raised, records, rvars, pvars, shares, issued, uivars>>

\* filters = handler.build_search_filters(query)
BuildSearchFilters ==
    /\ Running
    /\ \E r \in {build_search_filters(query)} :
           /\ raised' = r.exc
           /\ filters' = r.val
    /\ arg' = query
    /\ calls' = Append(calls, "build_search_filters")
    /\ UNCHANGED <<kind, data0, data, aliased, query, records, rvars, pvars, shares, issued, uivars>>

\* mongo_query = build_mongo_query(query)
BuildMongoQuery ==
    /\ Running
    /\ \E r \in {build_mongo_query(query)} :
           /\ raised' = r.exc
           /\ filters' = r.val
    /\ arg' = query
    /\ calls' = Append(calls, "build_mongo_query")
    /\ UNCHANGED <<kind, data0, data, aliased, query, records, rvars, pvars, shares, issued, uivars>>

\* handler.search_record_array(records, search_terms)
SearchRecordArray ==
    /\ kind = "list"
    /\ calls = <<>>
    /\ \E search_terms \in SearchTerms :
          /\ found' = search_record_array(records, search_terms)
          /\ shares' = IF Truthy(search_terms) THEN "records" ELSE "list"
          /\ sargs' = [field_name |-> "", text |-> search_terms]
    /\ calls' = <<"search_record_array">>
    /\ UNCHANGED <<kind, data0, records, qvars, pvars, issued, uivars>>

\* handler.partial_match_text_fields(records, field_name, search_value)
PartialMatchTextFields ==
    /\ kind = "list"
    /\ calls = <<>>
    /\ \E field_name \in MatchFields, search_value \in MatchValues :
          /\ found' = partial_match_text_fields(records, field_name, search_value)
          /\ shares' = IF Truthy(search_value) THEN "records" ELSE "list"
          /\ sargs' = [field_name |-> field_name, text |-> search_value]
    /\ calls' = <<"partial_match_text_fields">>
    /\ UNCHANGED <<kind, data0, records, qvars, pvars, issued, uivars>>

\* mutant: the values are replaced in the records of the caller's list
HandleNullEmptyFieldsInPlace ==
    /\ kind = "list"
    /\ calls = <<>>
    /\ records' = handle_null_empty_fields(records)
    /\ found' = handle_null_empty_fields(records)
    /\ shares' = "list"
    /\ calls' = <<"handle_null_empty_fields">>
    /\ UNCHANGED <<kind, data0, qvars, sargs, pvars, issued, uivars>>

\* handler.handle_null_empty_fields(records)
HandleNullEmptyFields ==
    /\ kind = "list"
    /\ calls = <<>>
    /\ found' = handle_null_empty_fields(records)
    /\ shares' = "nothing"
    /\ calls' = <<"handle_null_empty_fields">>
    /\ UNCHANGED <<kind, data0, records, qvars, sargs, pvars, issued, uivars>>

\* data_format = handler.detect_data_format(query_data)
DetectDataFormat ==
    /\ calls = <<>>
    /\ \E r \in {detect_data_format(kind, data)} :
           /\ raised' = r.exc
           /\ format' = r.val
    /\ calls' = <<"detect_data_format">>
    /\ UNCHANGED <<kind, data0, data, aliased, query, arg, filters, records, rvars, result, shares, issued, uivars>>

\* handler.process_dynamic_data(data, search_query)
ProcessDynamicData ==
    /\ calls = <<>>
    /\ \E search_query \in SearchTerms :
          /\ \E r \in {process_dynamic_data(kind, data, records, search_query)} :
                 /\ raised' = r.exc
                 /\ result' = r.val
          /\ sargs' = [field_name |-> "", text |-> search_query]
    /\ \E r \in {detect_data_format(kind, data)} : format' = r.val
    /\ shares' = "nothing"
    /\ arg' = query
    /\ calls' = <<"process_dynamic_data">>
    /\ UNCHANGED <<kind, data0, data, aliased, query, filters, records, found, issued, uivars>>

\* query_with_dynamic_handler(query_data, search_terms); the collection holds
\* the records of the payload
QueryWithDynamicHandler ==
    /\ calls = <<>>
    /\ \E search_terms \in SearchTerms :
          /\ \E r \in {query_with_dynamic_handler(kind, data, records, search_terms)} :
                 /\ raised' = r.exc
                 /\ result' = r.val
                 /\ issued' = r.issued
          /\ sargs' = [field_name |-> "", text |-> search_terms]
    /\ \E r \in {detect_data_format(kind, data)} : format' = r.val
    /\ shares' = "nothing"
    /\ arg' = query
    /\ calls' = <<"query_with_dynamic_handler">>
    /\ UNCHANGED <<kind, data0, data, aliased, query, filters, records, found, uivars>>

Next ==
    \/ TranslateSynonyms
    \/ NormalizeQueryObject
    \/ BuildSearchFilters
    \/ BuildMongoQuery
    \/ SearchRecordArray
    \/ PartialMatchTextFields
    \/ HandleNullEmptyFields
    \/ DetectDataFormat
    \/ ProcessDynamicData
    \/ QueryWithDynamicHandler

(***************************************************************************)
(* The results view of main().  A run of the script draws the view from    *)
(* the session state; an event of the user changes the session state and   *)
(* runs the script again.  A query is given by the number of records the   *)
(* store returns for it.                                                   *)
(*   page_number       st.session_state.page_number (Absent: no such key)  *)
(*   results_per_page  the value of the "Results per page" input           *)
(*   submitted_query   the query the input component holds                 *)
(*   view              what the last run displayed                         *)
(*   last_event        the event that caused the last run                  *)
(***************************************************************************)
MaxResults == 12
MaxPerPage == 10

MinPerPage == 5
DefaultPerPage == 10

\* 'page_number' not in st.session_state
Absent == 0

NoQuery == [text |-> "", hits |-> 0]
Queries == [text : {"q"}, hits : 0..MaxResults]

\* the input component keeps the submitted query until Clear empties it:
\* what it returns in a run where typed was entered (NoQuery: nothing entered)
create_integrated_input_component(held, typed) ==
    IF typed.text # "" THEN typed ELSE held

\* math.ceil(total_results / results_per_page)
CeilDiv(a, b) == IF a % b = 0 THEN a \div b ELSE (a \div b) + 1

Screen(screen, total_results, total_pages, start_idx, end_idx, previous_disabled, next_disabled) ==
    [screen |-> screen, total_results |-> total_results, total_pages |-> total_pages,
     start_idx |-> start_idx, end_idx |-> end_idx, pager |-> total_pages > 1,
     previous_disabled |-> previous_disabled, next_disabled |-> next_disabled]

\* the else branch of "if submitted_query": no results section
Welcome == Screen("welcome", 0, 0, 0, 0, TRUE, TRUE)

\* the else branch of "if results"
NoResults == Screen("warning", 0, 0, 0, 0, TRUE, TRUE)

\* start_idx, end_idx and the state of the two buttons
slice(page, per_page, total_results, total_pages) ==
    Screen("results", total_results, total_pages,
           (page - 1) * per_page,
           SetMin({(page - 1) * per_page + per_page, total_results}),
           page <= 1, page >= total_pages)

\* the "if results" branch; page is the stored page_number
results_view(page, per_page, total_results) ==
    slice(page, per_page, total_results, CeilDiv(total_results, per_page))

Drawn(page, screen) == [page_number |-> page, view |-> screen]

\* one run of the script in which no button is pressed
main(page, per_page, submitted) ==
    IF submitted.text = "" THEN Drawn(page, Welcome)
    ELSE IF submitted.hits = 0 THEN Drawn(page, NoResults)
    ELSE IF page = Absent THEN Drawn(1, results_view(1, per_page, submitted.hits))
    ELSE Drawn(page, results_view(page, per_page, submitted.hits))

PagesInit ==
    /\ page_number = Absent
    /\ results_per_page = DefaultPerPage
    /\ submitted_query = NoQuery
    /\ view = Welcome
    /\ last_event = "start"

\* no call of the handler is made
HandlerIdle == HandlerInit /\ kind = "NoneType"

Run(page, per_page, submitted) ==
    \E r \in {main(page, per_page, submitted)} :
        /\ page_number' = r.page_number
        /\ view' = r.view

\* a query is entered
SubmitQuery ==
    /\ \E typed \in Queries :
         \E q \in {create_integrated_input_component(submitted_query, typed)} :
            /\ submitted_query' = q
            /\ Run(page_number, results_per_page, q)
    /\ last_event' = "submit"
    /\ UNCHANGED <<hvars, results_per_page>>

\* Previous is pressed: page_number -= 1; st.rerun()
ClickPrevious ==
    /\ view.screen = "results"
    /\ view.pager
    /\ ~view.previous_disabled
    /\ Run(page_number - 1, results_per_page,
           create_integrated_input_component(submitted_query, NoQuery))
    /\ last_event' = "previous"
    /\ UNCHANGED <<hvars, results_per_page, submitted_query>>

\* Next is pressed: page_number += 1; st.rerun()
ClickNext ==
    /\ view.screen = "results"
    /\ view.pager
    /\ ~view.next_disabled
    /\ Run(page_number + 1, results_per_page,
           create_integrated_input_component(submitted_query, NoQuery))
    /\ last_event' = "next"
    /\ UNCHANGED <<hvars, results_per_page, submitted_query>>

\* another value is given to "Results per page"
ChangeResultsPerPage ==
    /\ \E per_page \in (MinPerPage..MaxPerPage) \ {results_per_page} :
          /\ results_per_page' = per_page
          /\ Run(page_number, per_page,
                 create_integrated_input_component(submitted_query, NoQuery))
    /\ last_event' = "per_page"
    /\ UNCHANGED <<hvars, submitted_query>>

\* Clear is pressed: the keys are reset, page_number = 1, st.rerun()
ClickClear ==
    /\ submitted_query' = NoQuery
    /\ Run(1, results_per_page, NoQuery)
    /\ last_event' = "clear"
    /\ UNCHANGED <<hvars, results_per_page>>

NextPages ==
    \/ SubmitQuery
    \/ ClickPrevious
    \/ ClickNext
    \/ ChangeResultsPerPage
    \/ ClickClear

Init == HandlerInit /\ PagesInit

Spec == Init /\ [][Next]_vars

InitPages == HandlerIdle /\ PagesInit

SpecPages == InitPages /\ [][NextPages]_vars

(***************************************************************************)
(* What the claims speak of.                                               *)
(***************************************************************************)
\* the last call made, "" before the first
Last == IF calls = <<>> THEN "" ELSE calls[Len(calls)]

\* a builder returned a filter for arg
Built == Last \in Builders /\ raised = "none"

\* a field that carries a non-empty string
HasText(q, f) == f \in DOMAIN q /\ IsStr(q[f]) /\ q[f].s # <<>>

\* a StructuredQuery: every field a string or the absent marker
StructuredQuery(q) == \A f \in DOMAIN q : q[f].t \in {"str", "none"}

\* the record field a condition {field: {...}} is on
FieldOf(cond) == CHOOSE f \in DOMAIN cond : TRUE

\* the Or nodes of a filter: the top-level one and those inside an And
OrNodes(f) ==
    (IF "$or" \in DOMAIN f THEN {f["$or"]} ELSE {})
        \cup (IF "$and" \in DOMAIN f
              THEN {f["$and"][i]["$or"] : i \in 1..Len(f["$and"])}
              ELSE {})

CategoryRecordFields == {"crime_type", "crime_category", "crime_subcategory"}
LocationRecordFields == {"location", "city", "address", "state", "country"}

OnFields(or, fields) == \A i \in 1..Len(or) : FieldOf(or[i]) \in fields

\* every condition of the Or node is a case-insensitive match of the pattern
AllMatch(or, pattern) ==
    \A i \in 1..Len(or) : or[i][FieldOf(or[i])] = Rx(StrV(pattern))

C2_CategoryOrGroup ==
    (Built /\ StructuredQuery(arg) /\ HasText(arg, "crime_category")) =>
        /\ \E or \in OrNodes(filters) :
               /\ Len(or) >= 3
               /\ OnFields(or, CategoryRecordFields)
               /\ AllMatch(or, Lower(arg["crime_category"].s))
        /\ HasText(arg, "location") =>
               /\ "$and" \in DOMAIN filters
               /\ Len(filters["$and"]) = 2
               /\ Len(filters["$and"][1]["$or"]) >= 3
               /\ OnFields(filters["$and"][1]["$or"], CategoryRecordFields)
               /\ Len(filters["$and"][2]["$or"]) >= 2
               /\ OnFields(filters["$and"][2]["$or"], LocationRecordFields)

(***************************************************************************)
(* C3: for a query of strings, a builder never raises; a date_start or     *)
(* date_end that strptime("%Y-%m-%d") does not accept leaves no bound in   *)
(* the filter; and a query whose only field is such a date_start gives     *)
(* the empty filter.                                                       *)
(***************************************************************************)
Unparseable(q, f) == HasText(q, f) /\ ~strptime(q[f].s).ok

HasBound(f, b) == "date" \in DOMAIN f /\ b \in DOMAIN f["date"]

C3_BadDateOmitted ==
    (Last \in Builders /\ StructuredQuery(arg)) =>
        /\ raised = "none"
        /\ Unparseable(arg, "date_start") => ~HasBound(filters, "$gte")
        /\ Unparseable(arg, "date_end") => ~HasBound(filters, "$lte")
        /\ (DOMAIN arg = {"date_start"} /\ Unparseable(arg, "date_start")) =>
               DOMAIN filters = {}

C3_Witness ==
    /\ Last \in Builders
    /\ raised = "none"
    /\ DOMAIN arg = {"date_start"}
    /\ arg["date_start"] = StrV(T_not_a_date)
    /\ DOMAIN filters = {}

(***************************************************************************)
(* C4: normalizing the result of normalize_query_object again gives the    *)
(* same query.                                                             *)
(***************************************************************************)
C4_Idempotent ==
    (/\ Len(calls) >= 2
     /\ calls[Len(calls)] = "normalize_query_object"
     /\ calls[Len(calls) - 1] = "normalize_query_object") => query = arg

(***************************************************************************)
(* C5: no field of the result of normalize_query_object is None, an        *)
(* empty list, or a string that is empty or only whitespace.               *)
(***************************************************************************)
C5_NoBlankValues ==
    Last = "normalize_query_object" =>
        \A f \in DOMAIN query :
            /\ query[f] # NoneV
            /\ query[f] # ListV(<<>>)
            /\ IsStr(query[f]) => \E i \in 1..Len(query[f].s) : query[f].s[i] \notin Whitespace

(***************************************************************************)
(* C6: the keys of normalize_query_object(q) are the keys of q whose       *)
(* value is not None, "" or []; a string value is trimmed, any other       *)
(* value is unchanged.                                                     *)
(***************************************************************************)
\* t is s without its leading and trailing whitespace
IsTrimOf(t, s) ==
    /\ t = <<>> \/ (t[1] \notin Whitespace /\ t[Len(t)] \notin Whitespace)
    /\ \E i \in 0..Len(s) :
          /\ i + Len(t) <= Len(s)
          /\ SubSeq(s, i + 1, i + Len(t)) = t
          /\ \A k \in 1..Len(s) : (k <= i \/ k > i + Len(t)) => s[k] \in Whitespace

C6_AbsentDropped ==
    Last = "normalize_query_object" =>
        /\ DOMAIN query =
               {f \in DOMAIN arg : ~(arg[f].t = "none"
                                      \/ (arg[f].t = "str" /\ Len(arg[f].s) = 0)
                                      \/ (arg[f].t = "list" /\ Len(arg[f].l) = 0))}
        /\ \A f \in DOMAIN query :
               IF arg[f].t = "str"
               THEN query[f].t = "str" /\ IsTrimOf(query[f].s, arg[f].s)
               ELSE query[f] = arg[f]

C6_Witness ==
    /\ Last = "normalize_query_object"
    /\ \E f \in DOMAIN arg : arg[f] = StrV(T_padded) /\ query[f] = StrV(T_Pune)

(***************************************************************************)
(* C7 as claimed: when no synonym occurs in crime_category,                *)
(* translate_synonyms returns it lower-cased.                              *)
(***************************************************************************)
Unmapped(q) ==
    HasText(q, "crime_category") /\ Matching(Lower(q["crime_category"].s)) = {}

C7_UnmappedLowered ==
    (Last = "translate_synonyms" /\ raised = "none" /\ Unmapped(arg)) =>
        query["crime_category"] = StrV(Lower(arg["crime_category"].s))

(***************************************************************************)
(* C7 as amended: when no synonym occurs in crime_category,                *)
(* translate_synonyms returns the query as it was given, crime_category    *)
(* in its original case.                                                   *)
(***************************************************************************)
C7_UnmappedUnchanged ==
    (Last = "translate_synonyms" /\ Unmapped(arg)) => (raised = "none" /\ query = arg)

C7_Witness ==
    /\ Last = "translate_synonyms"
    /\ Unmapped(arg)
    /\ arg["crime_category"] = StrV(T_XYZ)
    /\ query["crime_category"] = StrV(T_XYZ)

(***************************************************************************)
(* C8: when some synonym occurs in the lower-cased crime_category,         *)
(* translate_synonyms sets crime_category to the standard term of the      *)
(* first such entry of the table, a canonical category, and changes        *)
(* nothing else.                                                           *)
(***************************************************************************)
CanonicalCrimeCategory ==
    {S_theft, S_burglary, S_robbery, S_assault, S_murder, S_fraud, S_vandalism}

Mapped(q) ==
    HasText(q, "crime_category") /\ Matching(Lower(q["crime_category"].s)) # {}

C8_FirstMatchWins ==
    (Last = "translate_synonyms" /\ Mapped(arg)) =>
        /\ raised = "none"
        /\ DOMAIN query = DOMAIN arg
        /\ \A f \in DOMAIN arg \ {"crime_category"} : query[f] = arg[f]
        /\ query["crime_category"].t = "str"
        /\ query["crime_category"].s \in CanonicalCrimeCategory
        /\ \E i \in Matching(Lower(arg["crime_category"].s)) :
              /\ \A j \in Matching(Lower(arg["crime_category"].s)) : i <= j
              /\ query["crime_category"].s = crime_synonyms[i].standard

C8_Witness ==
    /\ Last = "translate_synonyms"
    /\ HasText(arg, "crime_category")
    /\ arg["crime_category"].s = T_robbery_theft
    /\ query["crime_category"] = StrV(S_theft)

(***************************************************************************)
(* C9: for a non-empty query text, search_record_array returns a record    *)
(* exactly when some whitespace-separated token of the lower-cased text    *)
(* occurs in the lower-cased str() of one of its values that is not None.  *)
(***************************************************************************)
\* the tokens of s: its maximal runs of characters that are no whitespace
Tokens(s) ==
    {SubSeq(s, i, j) : <<i, j>> \in
        {p \in (1..Len(s)) \X (1..Len(s)) :
            /\ p[1] <= p[2]
            /\ \A k \in p[1]..p[2] : s[k] \notin Whitespace
            /\ p[1] = 1 \/ s[p[1] - 1] \in Whitespace
            /\ p[2] = Len(s) \/ s[p[2] + 1] \in Whitespace}}

TokenOccurs(record, text) ==
    \E w \in Tokens(Lower(text)) :
        \E f \in DOMAIN record :
            record[f].t # "none" /\ Contains(Lower(PyStr(record[f])), w)

C9_TokenUnion ==
    (Last = "search_record_array" /\ Truthy(sargs.text)) =>
        /\ \A k \in 1..Len(found) : \E i \in 1..Len(records) : found[k] = records[i]
        /\ \A i \in 1..Len(records) :
               (\E k \in 1..Len(found) : found[k] = records[i])
                   <=> TokenOccurs(records[i], sargs.text.s)

C9_Witness ==
    /\ Last = "search_record_array"
    /\ sargs.text = StrV(T_THEFT_pune)
    /\ found # <<>>
    /\ Len(found) < Len(records)

(***************************************************************************)
(* C10 as claimed: partial_match_text_fields never returns a record that   *)
(* lacks the field or whose value for it is no string, whatever string     *)
(* the search value is (the empty one included).                           *)
(***************************************************************************)
TextField(record, field_name) ==
    field_name \in DOMAIN record /\ record[field_name].t = "str"

C10_OnlyTextFields ==
    (Last = "partial_match_text_fields" /\ IsStr(sargs.text)) =>
        \A k \in 1..Len(found) : TextField(found[k], sargs.field_name)

(***************************************************************************)
(* C10 as amended: for a non-empty search value,                           *)
(* partial_match_text_fields never returns a record that lacks the field   *)
(* or whose value for it is None or no string; for an empty search value   *)
(* it returns every record.                                                *)
(***************************************************************************)
C10_OnlyTextFieldsNonEmpty ==
    Last = "partial_match_text_fields" =>
        IF Truthy(sargs.text)
        THEN \A k \in 1..Len(found) : TextField(found[k], sargs.field_name)
        ELSE found = records

C10_Witness ==
    /\ Last = "partial_match_text_fields"
    /\ Truthy(sargs.text)
    /\ found # <<>>
    /\ \E i \in 1..Len(records) : ~TextField(records[i], sargs.field_name)

(***************************************************************************)
(* C11: handle_null_empty_fields returns as many records as it was given,  *)
(* in the same order and each with the same keys, and every value that is  *)
(* None, the empty string or an empty list is "N/A" in its result.         *)
(***************************************************************************)
\* None, "" or []
ExactlyEmpty(v) ==
    \/ v.t = "none"
    \/ v.t = "str" /\ Len(v.s) = 0
    \/ v.t = "list" /\ Len(v.l) = 0

C11_SentinelReplaces ==
    Last = "handle_null_empty_fields" =>
        /\ Len(found) = Len(records)
        /\ \A i \in 1..Len(records) :
              /\ DOMAIN found[i] = DOMAIN records[i]
              /\ \A f \in DOMAIN records[i] :
                    /\ found[i][f] \in {records[i][f], NA}
                    /\ ExactlyEmpty(records[i][f]) => found[i][f] = NA

C11_Witness ==
    /\ Last = "handle_null_empty_fields"
    /\ Len(found) = 2
    /\ found[1] # found[2]
    /\ \E i \in 1..2 : \E f \in DOMAIN records[i] :
          records[i][f] = NoneV /\ found[i][f] = NA
    /\ \E i \in 1..2 : \E f \in DOMAIN records[i] :
          records[i][f] = ListV(<<>>) /\ found[i][f] = NA

(***************************************************************************)
(* C12 as claimed: handle_null_empty_fields leaves every value other than  *)
(* None, the exact empty string and the empty list unchanged, strings of   *)
(* whitespace included.                                                    *)
(***************************************************************************)
C12_OthersUnchanged ==
    Last = "handle_null_empty_fields" =>
        \A i \in 1..Len(records) : \A f \in DOMAIN records[i] :
            ~ExactlyEmpty(records[i][f]) => found[i][f] = records[i][f]

(***************************************************************************)
(* C12 as amended: handle_null_empty_fields leaves every value unchanged   *)
(* that is not None, not an empty list and not a string that is empty or   *)
(* made only of whitespace (0 and False are left unchanged); a string      *)
(* made only of whitespace becomes "N/A".                                  *)
(***************************************************************************)
\* a str with no character that is not whitespace
BlankStr(v) == v.t = "str" /\ \A k \in 1..Len(v.s) : v.s[k] \in Whitespace

C12_NonBlankUnchanged ==
    Last = "handle_null_empty_fields" =>
        \A i \in 1..Len(records) : \A f \in DOMAIN records[i] :
            IF BlankStr(records[i][f]) \/ ExactlyEmpty(records[i][f])
            THEN found[i][f] = NA
            ELSE found[i][f] = records[i][f]

C12_Witness ==
    /\ Last = "handle_null_empty_fields"
    /\ \E i \in 1..Len(records) : \E f \in DOMAIN records[i] :
          records[i][f] = StrV(T_blank) /\ found[i][f] = NA
    /\ \E i \in 1..Len(records) :
          /\ {"count", "solved"} \subseteq DOMAIN records[i]
          /\ found[i]["count"] = IntV(0)
          /\ found[i]["solved"] = BoolV(FALSE)

(***************************************************************************)
(* C13: detect_data_format returns "query_object" for a mapping exactly    *)
(* when one of crime_type, crime_category, location, date_start,           *)
(* date_end, status, reported_by is a key of it, and "record_array" for    *)
(* any other mapping.                                                      *)
(***************************************************************************)
C13_QueryObjectIff ==
    (Last = "detect_data_format" /\ kind = "dict") =>
        /\ raised = "none"
        /\ format = (IF DOMAIN data \cap QueryFields # {}
                     THEN "query_object" ELSE "record_array")

(***************************************************************************)
(* C14: process_dynamic_data on a payload that is neither a dict nor a     *)
(* list ends with an exception raised to its caller.                       *)
(***************************************************************************)
C14_UnsupportedReachesCaller ==
    (Last = "process_dynamic_data" /\ kind \in OtherTypes) => raised # "none"

(***************************************************************************)
(* C15: process_dynamic_data on a query object whose crime_category holds  *)
(* a synonym returns a filter with a category group whose pattern is the   *)
(* standard term of that synonym.                                          *)
(***************************************************************************)
\* the standard term of the first entry of the table that occurs in c
Standard(c) == crime_synonyms[SetMin(Matching(c))].standard

C15_CanonicalPattern ==
    (Last = "process_dynamic_data" /\ format = "query_object"
        /\ StructuredQuery(arg) /\ Mapped(arg)) =>
        /\ Len(result) = 1
        /\ \E or \in OrNodes(result[1].query_filters) :
              /\ or # <<>>
              /\ OnFields(or, CategoryRecordFields)
              /\ AllMatch(or, Standard(Lower(arg["crime_category"].s)))

(***************************************************************************)
(* C16: process_dynamic_data on a record array returns                     *)
(* search_record_array(handle_null_empty_fields(records), text) when a     *)
(* text is given and handle_null_empty_fields(records) when none is; no    *)
(* value of a returned record is None, and every returned record is the    *)
(* cleaned form of a record given.                                         *)
(***************************************************************************)
\* the record array the payload stands for
PayloadRecords == IF kind = "list" THEN records ELSE <<data>>

C16_CleanThenSearch ==
    (Last = "process_dynamic_data" /\ format = "record_array") =>
        /\ raised = "none"
        /\ result = (IF sargs.text = NoneV
                     THEN handle_null_empty_fields(PayloadRecords)
                     ELSE search_record_array(handle_null_empty_fields(PayloadRecords),
                                              sargs.text))
        /\ \A k \in 1..Len(result) :
              /\ \A f \in DOMAIN result[k] : result[k][f] # NoneV
              /\ \E i \in 1..Len(PayloadRecords) :
                    /\ DOMAIN result[k] = DOMAIN PayloadRecords[i]
                    /\ \A f \in DOMAIN result[k] :
                          result[k][f] \in {PayloadRecords[i][f], NA}
        /\ Truthy(sargs.text) =>
              \A i \in 1..Len(PayloadRecords) :
                  (\E f \in DOMAIN PayloadRecords[i] :
                        /\ ExactlyEmpty(PayloadRecords[i][f])
                        /\ TokenOccurs([x \in {"v"} |-> NA], sargs.text.s))
                      => \E k \in 1..Len(result) :
                            DOMAIN result[k] = DOMAIN PayloadRecords[i]

C16_Witness ==
    /\ Last = "process_dynamic_data"
    /\ kind = "list"
    /\ sargs.text = StrV(T_n_a)
    /\ Len(records) = 2
    /\ Len(result) = 1
    /\ \E f \in DOMAIN result[1] : result[1][f] = NA
    /\ search_record_array(records, sargs.text) = <<>>

(***************************************************************************)
(* C17: build_search_filters raises nothing on a query that                *)
(* normalize_query_object returned.                                        *)
(***************************************************************************)
Normalized ==
    /\ Len(calls) >= 2
    /\ calls[Len(calls)] = "build_search_filters"
    /\ calls[Len(calls) - 1] = "normalize_query_object"

C17_BuilderNeverRaises == Normalized => raised = "none"

(***************************************************************************)
(* C18: for a normalized query of strings with a location,                 *)
(* build_search_filters returns a filter with a top-level "$or" that has   *)
(* a condition on the record field location.                               *)
(***************************************************************************)
C18_TopLevelOrLocation ==
    (Normalized /\ StructuredQuery(arg) /\ HasText(arg, "location")) =>
        /\ raised = "none"
        /\ "$or" \in DOMAIN filters
        /\ \E i \in 1..Len(filters["$or"]) : FieldOf(filters["$or"][i]) = "location"

(***************************************************************************)
(* C19: a filter a builder returns has a "date" entry exactly when         *)
(* date_start or date_end is given and parses; the entry has "$gte", the   *)
(* parsed date_start, exactly when date_start is given and parses, and     *)
(* "$lte", the parsed date_end, exactly when date_end is given and         *)
(* parses; nothing else of the filter is a date condition.                 *)
(***************************************************************************)
Parses(q, f) == HasText(q, f) /\ strptime(q[f].s).ok

\* the date strptime gives for the field
DateOf(q, f) ==
    [y |-> strptime(q[f].s).y, m |-> strptime(q[f].s).m, d |-> strptime(q[f].s).d]

C19_OneDateNode ==
    Built =>
        /\ "date" \in DOMAIN filters <=> (Parses(arg, "date_start") \/ Parses(arg, "date_end"))
        /\ HasBound(filters, "$gte") <=> Parses(arg, "date_start")
        /\ HasBound(filters, "$lte") <=> Parses(arg, "date_end")
        /\ "date" \in DOMAIN filters => DOMAIN filters["date"] \subseteq {"$gte", "$lte"}
        /\ HasBound(filters, "$gte") => filters["date"]["$gte"] = DateOf(arg, "date_start")
        /\ HasBound(filters, "$lte") => filters["date"]["$lte"] = DateOf(arg, "date_end")
        /\ \A or \in OrNodes(filters) : \A i \in 1..Len(or) : FieldOf(or[i]) # "date"

C19_Witness ==
    /\ Built
    /\ Parses(arg, "date_start")
    /\ Parses(arg, "date_end")
    /\ DOMAIN filters["date"] = {"$gte", "$lte"}

(***************************************************************************)
(* C20: after translate_synonyms the caller's query object is as it was    *)
(* before the call.                                                        *)
(***************************************************************************)
C20_InputNotMutated ==
    calls = <<"translate_synonyms">> => data = data0

(***************************************************************************)
(* C21: what search_record_array returns is a subsequence of the records   *)
(* it was given: the records at some positions of the input, each          *)
(* position taken once, in increasing order of position.                   *)
(***************************************************************************)
\* the k-th smallest element of the set S of numbers
Kth(S, k) == CHOOSE i \in S : Cardinality({j \in S : j < i}) = k - 1

\* the elements of seq at the positions S, in the order of seq
Pick(seq, S) == [k \in 1..Cardinality(S) |-> seq[Kth(S, k)]]

IsSubsequence(sub, seq) ==
    \E S \in SUBSET (1..Len(seq)) : Cardinality(S) = Len(sub) /\ sub = Pick(seq, S)

C21_Subsequence ==
    Last = "search_record_array" => IsSubsequence(found, records)

C21_Witness ==
    /\ Last = "search_record_array"
    /\ Len(found) = 2
    /\ found[1] # found[2]
    /\ found = records
    /\ Truthy(sargs.text)

(***************************************************************************)
(* C22: when process_dynamic_data detects a query object from which        *)
(* build_search_filters(normalize_query_object(payload)) returns a filter, *)
(* it returns one record {"query_filters": that filter, "format":          *)
(* "query_object"} and nothing else, whatever the search text; no record   *)
(* of data is returned.                                                    *)
(***************************************************************************)
C22_OneDescriptor ==
    (Last = "process_dynamic_data" /\ format = "query_object") =>
        \A r \in {build_search_filters(normalize_query_object(data0))} :
            r.exc = "none" =>
                /\ raised = "none"
                /\ Len(result) = 1
                /\ DOMAIN result[1] = {"query_filters", "format"}
                /\ result[1].format = "query_object"
                /\ result[1].query_filters = r.val
                /\ found = <<>>

C22_Witness ==
    /\ Last = "process_dynamic_data"
    /\ format = "query_object"
    /\ Get(data0, "location") = StrV(T_padded)
    /\ Truthy(sargs.text)
    /\ Len(result) = 1
    /\ "$or" \in DOMAIN result[1].query_filters
    /\ AllMatch(result[1].query_filters["$or"], Lower(T_Pune))

(***************************************************************************)
(* C23: a filter build_search_filters returns has the group of every       *)
(* field the query gives: the category group for crime_type, the location  *)
(* group for location, a date bound for each date that parses, and the     *)
(* matches of status and reported_by, also when category and location      *)
(* are wrapped in "$and"; nothing else is in it, and the empty query       *)
(* gives the empty filter.                                                 *)
(***************************************************************************)
\* some Or node of the filter is made of conditions on the fields, matching pattern
HasGroup(f, fields, pattern) ==
    \E or \in OrNodes(f) :
        or # <<>> /\ OnFields(or, fields) /\ AllMatch(or, pattern)

C23_Conjunction ==
    (Last = "build_search_filters" /\ raised = "none") =>
        /\ Truthy(Get(arg, "crime_type")) =>
               HasGroup(filters, CategoryRecordFields, Lower(arg["crime_type"].s))
        /\ Truthy(Get(arg, "location")) =>
               HasGroup(filters, LocationRecordFields, Lower(arg["location"].s))
        /\ Parses(arg, "date_start") => HasBound(filters, "$gte")
        /\ Parses(arg, "date_end") => HasBound(filters, "$lte")
        /\ \A key \in {"status", "reported_by"} :
               IF Truthy(Get(arg, key))
               THEN key \in DOMAIN filters /\ filters[key] = Rx(arg[key])
               ELSE key \notin DOMAIN filters
        /\ DOMAIN filters \subseteq {"$or", "$and", "date", "status", "reported_by"}
        /\ (\A f \in DOMAIN arg : ~Truthy(arg[f])) => filters = EmptyDict

C23_Witness ==
    /\ Last = "build_search_filters"
    /\ raised = "none"
    /\ DOMAIN filters = {"$and", "date", "status", "reported_by"}
    /\ DOMAIN filters["date"] = {"$gte", "$lte"}

(***************************************************************************)
(* C24: no filter a builder returns has a "$or" or "$and" list without     *)
(* elements, at the top or inside "$and"; a query without crime type and   *)
(* location gives a filter without "$or" and "$and".                       *)
(***************************************************************************)
C24_NoEmptyGroup ==
    Built =>
        /\ \A or \in OrNodes(filters) : or # <<>>
        /\ "$and" \in DOMAIN filters => filters["$and"] # <<>>
        /\ (\A f \in {"crime_type", "crime_category", "location"} : ~Truthy(Get(arg, f)))
               => DOMAIN filters \cap {"$or", "$and"} = {}

C24_Witness ==
    /\ Built
    /\ ~Truthy(Get(arg, "crime_type"))
    /\ ~Truthy(Get(arg, "location"))
    /\ DOMAIN filters = {"status"}

(***************************************************************************)
(* C28: translate_synonyms of a query whose crime_category is a surface    *)
(* form of the synonym table returns the standard term the table gives     *)
(* for that surface form.                                                  *)
(***************************************************************************)
C28_TableEntryHonoured ==
    (Last = "translate_synonyms" /\ raised = "none") =>
        \A i \in 1..Len(crime_synonyms) :
            Get(arg, "crime_category") = StrV(crime_synonyms[i].synonym) =>
                query["crime_category"] = StrV(crime_synonyms[i].standard)

(***************************************************************************)
(* C29: search_record_array returns no record when the text is not empty   *)
(* but made of whitespace only, whatever the records, and the records it   *)
(* was given when the text is empty.                                       *)
(***************************************************************************)
C29_WhitespaceOnlyFindsNothing ==
    (Last = "search_record_array" /\ IsStr(sargs.text)) =>
        /\ (sargs.text.s # <<>> /\ BlankStr(sargs.text)) => found = <<>>
        /\ sargs.text.s = <<>> => found = records

C29_Witness ==
    /\ Last = "search_record_array"
    /\ sargs.text = StrV(T_tab_space)
    /\ Len(records) = 2
    /\ found = <<>>

(***************************************************************************)
(* C25: a call of handle_null_empty_fields, search_record_array,           *)
(* partial_match_text_fields or process_dynamic_data leaves the payload    *)
(* and every record of the list it was given as they were, and what        *)
(* handle_null_empty_fields and process_dynamic_data return holds none of  *)
(* the caller's objects.  The handler keeps no state between calls, so a   *)
(* sequence of calls is this step repeated.                                *)
(***************************************************************************)
RecordOperations ==
    {"handle_null_empty_fields", "search_record_array",
     "partial_match_text_fields", "process_dynamic_data"}

Cleaners == {"handle_null_empty_fields", "process_dynamic_data"}

C26_Commute ==
    (Last = "process_dynamic_data" /\ kind = "list") =>
        result = search_then_clean(records, sargs.text)

\* no word of the text occurs in the sentinel or in the text of an empty list
OffSentinel(text) ==
    ~Truthy(text) \/
    \A w \in Tokens(Lower(text.s)) :
        ~Contains(Lower(NA.s), w) /\ ~Contains(T_brackets, w)

(***************************************************************************)
(* C26 amended: the two orders return the same sequence of records when    *)
(* the text is None or empty, or when none of its lower-cased words occurs *)
(* in "n/a" or in "[]".                                                    *)
(***************************************************************************)
C26_CommuteOffSentinel ==
    (Last = "process_dynamic_data" /\ kind = "list" /\ OffSentinel(sargs.text)) =>
        result = search_then_clean(records, sargs.text)

C26_Witness ==
    /\ Last = "process_dynamic_data"
    /\ kind = "list"
    /\ sargs.text = StrV(T_THEFT_pune)
    /\ Len(records) = 2
    /\ Len(result) = 1
    /\ handle_null_empty_fields(records) # records
    /\ result[1] \notin {records[1], records[2]}
    /\ result = search_then_clean(records, sargs.text)

(***************************************************************************)
(* C27: for a mapping payload whose crime_category or crime_type is a      *)
(* non-empty string, query_with_dynamic_handler passes exactly one filter  *)
(* to query_crime_data, and that filter constrains crime_category; it is   *)
(* never {}.                                                               *)
(***************************************************************************)
NamesCategory(q) == HasText(q, "crime_category") \/ HasText(q, "crime_type")

C27_CategoryConstrained ==
    (Last = "query_with_dynamic_handler" /\ kind = "dict" /\ NamesCategory(data0)) =>
        /\ Len(issued) = 1
        /\ issued[1] # EmptyDict
        /\ "crime_category" \in DOMAIN issued[1]

====
